---- MODULE Spec2Model ----
(***************************************************************************)
(* Provider selection, fallback orchestration, per-adapter retry and       *)
(* health monitoring of the image-generation backend (ProviderManager and  *)
(* the three BaseImageProvider adapters).                                  *)
(*                                                                         *)
(* Units.  Time is counted in timer periods of 60000 ms (one tick of the   *)
(* setInterval of startHealthMonitoring).  Money is counted in units of    *)
(* 0.000005 USD, weights, quality and speed scores in tenths, and a        *)
(* provider score in units of 1 / ScoreOne, so that every quantity the     *)
(* code computes in floating point is an exact integer here.               *)
(***************************************************************************)
EXTENDS Integers, Sequences, FiniteSets, TLC

(***************************************************************************)
(* Bounds of the model.                                                    *)
(***************************************************************************)
MaxTicks == 6
MaxSweeps == 2
MaxPromptChars == 5

(***************************************************************************)
(* Program constants.                                                      *)
(***************************************************************************)
AllProviders == <<"dalleE3", "imagen4", "stableDiffusion">>
ProviderNames == {AllProviders[i] : i \in 1..Len(AllProviders)}
NoProvider == "unknown"

TimerPeriodMs == 60000
HealthCheckIntervalMs == 300000
\* healthCheckInterval of the default config, in ticks
HealthCheckIntervalTicks == HealthCheckIntervalMs \div TimerPeriodMs
\* Date.now() when the manager is constructed: any value that is at least
\* one health-check interval after the epoch
StartTime == HealthCheckIntervalTicks

DefaultMaxRetries == 3
BaseDelayMs == 1000
DefaultRetryAfterSec == 60

\* money: one unit is 0.000005 USD
MaxCost == 40000
DalleStandardCost == 8000
DalleHighCost == 16000
DalleHdLargeCost == 24000
ImagenBaseImageCost == 6000
SdCostPerCredit == 400
SdBaseCredits == 10
SdBasePixels == 262144
\* a score of 1.0, and the unit in which a score is counted
ScoreOne == 200 * MaxCost

Max(a, b) == IF a >= b THEN a ELSE b
Min(a, b) == IF a <= b THEN a ELSE b
Abs(a) == IF a >= 0 THEN a ELSE 0 - a

RECURSIVE Pow2(_)
Pow2(n) == IF n <= 0 THEN 1 ELSE 2 * Pow2(n - 1)

(***************************************************************************)
(* Requests.  A prompt is represented by its length (promptLength; the     *)
(* text is not blank when the length is positive), an absent optional      *)
(* field by 0 (which is falsy in the code as well) and an absent           *)
(* provider by "".                                                         *)
(***************************************************************************)
NoExplicit == ""

BaseRequest ==
  [promptLength |-> 250, negativePromptLength |-> 0, width |-> 0, height |-> 0,
   quality |-> "standard", count |-> 0, seed |-> 0]

\* a request every adapter accepts, one the DALL-E adapter rejects and one
\* that every adapter rejects
SampleParams ==
  { BaseRequest,
    [BaseRequest EXCEPT !.count = 2],
    [BaseRequest EXCEPT !.count = 11] }

WithProvider(r, p) ==
  [promptLength |-> r.promptLength, negativePromptLength |-> r.negativePromptLength,
   width |-> r.width, height |-> r.height, quality |-> r.quality,
   count |-> r.count, seed |-> r.seed, provider |-> p]

Requests ==
  {WithProvider(r, p) : r \in SampleParams, p \in ProviderNames \cup {NoExplicit}}

(***************************************************************************)
(* BaseImageProvider.standardizeImageSize                                  *)
(***************************************************************************)
roundTo64(value) == ((value + 32) \div 64) * 64

standardizeImageSize(width, height) ==
  [width  |-> IF width # 0 THEN roundTo64(Max(256, Min(2048, width))) ELSE 1024,
   height |-> IF height # 0 THEN roundTo64(Max(256, Min(2048, height))) ELSE 1024]

(***************************************************************************)
(* validateParams of the three adapters: the set of violations.            *)
(* The Imagen adapter also probes the Google credentials, authOk is the    *)
(* outcome of that probe.                                                  *)
(***************************************************************************)
DalleValidSizes == {<<1024, 1024>>, <<1024, 1792>>, <<1792, 1024>>}

DalleErrors(params) ==
  LET size == standardizeImageSize(params.width, params.height) IN
    (IF params.promptLength = 0 THEN {"Prompt is required"} ELSE {})
    \cup (IF params.promptLength > 4000 THEN {"Prompt exceeds maximum length"} ELSE {})
    \cup (IF params.count > 1 THEN {"only supports generating 1 image"} ELSE {})
    \cup (IF <<size.width, size.height>> \notin DalleValidSizes THEN {"Invalid size"} ELSE {})
    \cup (IF params.negativePromptLength > 0 THEN {"does not support negative prompts"} ELSE {})
    \cup (IF params.seed # 0 THEN {"does not support seed parameter"} ELSE {})

ImagenErrors(params, authOk) ==
    (IF params.promptLength = 0 THEN {"Prompt is required"} ELSE {})
    \cup (IF params.promptLength > 2048 THEN {"Prompt exceeds maximum length"} ELSE {})
    \cup (IF params.negativePromptLength > 2048 THEN {"Negative prompt exceeds maximum length"} ELSE {})
    \cup (IF params.count > 4 THEN {"maximum 4 images per request"} ELSE {})
    \cup (IF params.seed # 0 THEN {"does not support seed parameter"} ELSE {})
    \cup (IF ~authOk THEN {"authentication not configured properly"} ELSE {})

SdErrors(params) ==
  LET size == standardizeImageSize(params.width, params.height) IN
    (IF params.promptLength = 0 THEN {"Prompt is required"} ELSE {})
    \cup (IF params.promptLength > 2000 THEN {"Prompt exceeds maximum length"} ELSE {})
    \cup (IF params.negativePromptLength > 2000 THEN {"Negative prompt exceeds maximum length"} ELSE {})
    \cup (IF params.count > 10 THEN {"maximum 10 images per request"} ELSE {})
    \cup (IF size.width < 128 \/ size.height < 128 THEN {"Minimum image size is 128x128"} ELSE {})
    \cup (IF size.width > 2048 \/ size.height > 2048 THEN {"Maximum image size is 2048x2048"} ELSE {})
    \cup (IF size.width % 64 # 0 \/ size.height % 64 # 0 THEN {"must be divisible by 64"} ELSE {})

validateParams(p, params, authOk) ==
  LET errors == CASE p = "dalleE3" -> DalleErrors(params)
                  [] p = "imagen4" -> ImagenErrors(params, authOk)
                  [] OTHER -> SdErrors(params)
  IN [valid |-> errors = {}, errors |-> errors]

\* outcomes the credentials probe of validateParams can have
AuthOutcomes(p) == IF p = "imagen4" THEN BOOLEAN ELSE {TRUE}

(***************************************************************************)
(* getCapabilities of the three adapters.  The objects they return have no *)
(* "name" property.                                                        *)
(***************************************************************************)
getCapabilities(p) ==
  CASE p = "dalleE3" ->
         [maxImageWidth |-> 1792, maxPromptLength |-> 4000,
          supportsNegativePrompts |-> FALSE, supportsStylePresets |-> TRUE,
          maxBatchSize |-> 1]
    [] p = "imagen4" ->
         [maxImageWidth |-> 1536, maxPromptLength |-> 2048,
          supportsNegativePrompts |-> TRUE, supportsStylePresets |-> FALSE,
          maxBatchSize |-> 4]
    [] OTHER ->
         [maxImageWidth |-> 2048, maxPromptLength |-> 2000,
          supportsNegativePrompts |-> TRUE, supportsStylePresets |-> TRUE,
          maxBatchSize |-> 10]

\* the smallest image side an adapter declares: validateParams of the Stable
\* Diffusion adapter enforces one, the other adapters declare none
minImageSize(p) == IF p = "stableDiffusion" THEN 128 ELSE 0

(***************************************************************************)
(* estimateCost of the three adapters.  The Imagen estimate is exact for   *)
(* prompt lengths that are multiples of 25 and counts 1, 2 and 4.          *)
(***************************************************************************)
DalleEstimate(params) ==
  LET size == standardizeImageSize(params.width, params.height)
      isHD == params.quality = "hd"
      isLargeSize == size.width > 1024 \/ size.height > 1024
      costPerImage == IF isHD /\ ~isLargeSize THEN DalleHighCost
                      ELSE IF isLargeSize
                           THEN (IF isHD THEN DalleHdLargeCost ELSE DalleHighCost)
                           ELSE DalleStandardCost
      count == Min(IF params.count # 0 THEN params.count ELSE 1, 1)
  IN [totalCost |-> costPerImage * count, costPerImage |-> costPerImage]

ImagenEstimate(params) ==
  LET promptLength == params.promptLength + params.negativePromptLength
      characterCost == (promptLength * 4) \div 25
      count == Min(IF params.count # 0 THEN params.count ELSE 1, 4)
      totalCost == characterCost + ImagenBaseImageCost * count
  IN [totalCost |-> totalCost, costPerImage |-> totalCost \div count]

SdEstimate(params) ==
  LET size == standardizeImageSize(params.width, params.height)
      pixelCount == size.width * size.height
      creditsPerImage ==
        IF pixelCount > SdBasePixels
        THEN (SdBaseCredits * pixelCount + SdBasePixels - 1) \div SdBasePixels
        ELSE SdBaseCredits
      costPerImage == creditsPerImage * SdCostPerCredit
      count == Min(IF params.count # 0 THEN params.count ELSE 1, 10)
  IN [totalCost |-> costPerImage * count, costPerImage |-> costPerImage]

estimateCost(p, params) ==
  CASE p = "dalleE3" -> DalleEstimate(params)
    [] p = "imagen4" -> ImagenEstimate(params)
    [] OTHER -> SdEstimate(params)

(***************************************************************************)
(* ProviderManager.initializeDefaultConfig (weights in tenths, the         *)
(* health-check interval in ticks)                                         *)
(***************************************************************************)
defaultConfig ==
  [enabled |-> TRUE, priority |-> 1, maxRetries |-> DefaultMaxRetries,
   healthCheckInterval |-> HealthCheckIntervalTicks,
   costWeight |-> 4, qualityWeight |-> 4, speedWeight |-> 2]

initializeDefaultConfig ==
  [p \in ProviderNames |->
     CASE p = "dalleE3" ->
            [defaultConfig EXCEPT !.priority = 2, !.costWeight = 3,
                                  !.qualityWeight = 5, !.speedWeight = 2]
       [] p = "imagen4" ->
            [defaultConfig EXCEPT !.priority = 1, !.costWeight = 4,
                                  !.qualityWeight = 4, !.speedWeight = 2]
       [] OTHER ->
            [defaultConfig EXCEPT !.priority = 3, !.costWeight = 6,
                                  !.qualityWeight = 3, !.speedWeight = 1]]

(***************************************************************************)
(* State                                                                   *)
(***************************************************************************)
VARIABLES
  providers,        \* keys of ProviderManager.providers (the registered adapters)
  config,           \* ProviderManager.config
  healthStatus,     \* ProviderManager.healthStatus
  lastHealthCheck,  \* ProviderManager.lastHealthCheck (absent key: never checked)
  now,              \* Date.now(), in ticks
  timerStarted,     \* the setInterval of startHealthMonitoring is registered
  sweeps,           \* performHealthChecks calls suspended in "await checkHealth()"
  rq,               \* the generateImage call being served: its locals and position
  enh,              \* the enhancePrompt call being served: its locals and position
  fn,               \* the last call of a helper function: its arguments and its result
  everHealthy       \* the providers whose checkHealth() has returned true (not read
                    \* by the code)

monVars ==
  <<providers, config, healthStatus, lastHealthCheck, now, timerStarted, sweeps, enh, fn,
    everHealthy>>
vars ==
  <<providers, config, healthStatus, lastHealthCheck, now, timerStarted, sweeps, rq, enh, fn,
    everHealthy>>

\* the keys of the providers map, in insertion order
RECURSIVE KeysFrom(_, _)
KeysFrom(i, reg) ==
  IF i > Len(AllProviders) THEN <<>>
  ELSE (IF AllProviders[i] \in reg THEN <<AllProviders[i]>> ELSE <<>>)
       \o KeysFrom(i + 1, reg)
providerKeys == KeysFrom(1, providers)

(***************************************************************************)
(* ProviderManager.isProviderAvailable, getAvailableProviders              *)
(***************************************************************************)
\* variant: the enabled flag is not consulted
isProviderAvailableIgnoringEnabled(p) ==
  /\ p \in providers
  /\ p \in DOMAIN healthStatus /\ healthStatus[p] = TRUE

isProviderAvailable(p) ==
  /\ p \in providers
  /\ p \in DOMAIN config /\ config[p].enabled = TRUE
  /\ p \in DOMAIN healthStatus /\ healthStatus[p] = TRUE

getAvailableProviders == SelectSeq(providerKeys, isProviderAvailable)

(***************************************************************************)
(* ProviderManager.calculateProviderScore, in units of 1 / ScoreOne.       *)
(* "capabilities.name" is the value of a property the capabilities object  *)
(* may lack; a missing property reads as undefined, which is no key of     *)
(* speedScores and no key of healthStatus.                                 *)
(***************************************************************************)
Undefined == "undefined"
nameOf(capabilities) ==
  IF "name" \in DOMAIN capabilities THEN capabilities.name ELSE Undefined

DefaultSpeedScore == 5
speedScores(name) ==
  CASE name = "stableDiffusion" -> 6
    [] name = "dalleE3" -> 8
    [] name = "imagen4" -> 7
    [] OTHER -> DefaultSpeedScore

\* healthStatus.get(name), as a truth value
healthStatusGet(name) ==
  IF name \in DOMAIN healthStatus THEN healthStatus[name] ELSE FALSE

\* variant: a higher cost earns a higher cost score
calculateProviderScoreRewardingCost(capabilities, cost, cfg) ==
  LET costPart == Min(MaxCost, cost.costPerImage) * cfg.costWeight * 10
      qualityScore ==
        5 + (IF capabilities.maxImageWidth >= 1024 THEN 2 ELSE 0)
          + (IF capabilities.supportsNegativePrompts THEN 1 ELSE 0)
          + (IF capabilities.supportsStylePresets THEN 1 ELSE 0)
          + (IF capabilities.maxPromptLength >= 2000 THEN 1 ELSE 0)
      qualityPart == Min(qualityScore, 10) * cfg.qualityWeight * MaxCost
      speedPart == speedScores(nameOf(capabilities)) * cfg.speedWeight * MaxCost
      priorityPart == cfg.priority * 10 * MaxCost
      score == costPart + qualityPart + speedPart + priorityPart
      penalised == IF ~healthStatusGet(nameOf(capabilities)) THEN score ELSE 2 * score
  IN Min(penalised, ScoreOne)

calculateProviderScore(capabilities, cost, cfg) ==
  LET costPart == Max(0, MaxCost - cost.costPerImage) * cfg.costWeight * 10
      qualityScore ==
        5 + (IF capabilities.maxImageWidth >= 1024 THEN 2 ELSE 0)
          + (IF capabilities.supportsNegativePrompts THEN 1 ELSE 0)
          + (IF capabilities.supportsStylePresets THEN 1 ELSE 0)
          + (IF capabilities.maxPromptLength >= 2000 THEN 1 ELSE 0)
      qualityPart == Min(qualityScore, 10) * cfg.qualityWeight * MaxCost
      speedPart == speedScores(nameOf(capabilities)) * cfg.speedWeight * MaxCost
      priorityPart == cfg.priority * 10 * MaxCost
      score == costPart + qualityPart + speedPart + priorityPart
      penalised == IF ~healthStatusGet(nameOf(capabilities)) THEN score ELSE 2 * score
  IN Min(penalised, ScoreOne)

\* ProviderManager.generateSelectionReason
generateSelectionReason(score, cost, capabilities) ==
  IF 10 * score > 8 * ScoreOne THEN "Optimal cost/quality balance"
  ELSE IF cost.costPerImage * 20 < MaxCost * 5 THEN "Best cost efficiency"
  ELSE IF capabilities.maxImageWidth >= 1024 THEN "High quality capabilities"
  ELSE "Available and suitable"

(***************************************************************************)
(* ProviderManager.performHealthChecks: the loop runs without suspending   *)
(* over the providers whose interval has not elapsed and suspends in       *)
(* checkHealth() of the first one that is due.                             *)
(***************************************************************************)
lastCheckOf(lhc, p) == IF p \in DOMAIN lhc THEN lhc[p] ELSE 0

RECURSIVE NextDue(_, _, _, _)
\* variant: the interval is not consulted, every provider is due
NextDueIgnoringInterval(i, keys, lhc, t) == IF i > Len(keys) THEN 0 ELSE i

NextDue(i, keys, lhc, t) ==
  IF i > Len(keys) THEN 0
  ELSE IF t - lastCheckOf(lhc, keys[i]) < config[keys[i]].healthCheckInterval
       THEN NextDue(i + 1, keys, lhc, t)
       ELSE i

RemoveAt(s, i) == SubSeq(s, 1, i - 1) \o SubSeq(s, i + 1, Len(s))

HealthOutcomes == {"healthy", "unhealthy", "throws"}

\* variant: a check that throws leaves the provider healthy
isHealthyUnlessFalse(outcome) == outcome # "unhealthy"

\* the value stored in healthStatus: the value checkHealth() returned, false
\* when it threw
isHealthy(outcome) == outcome = "healthy"

\* the awaited checkHealth() of sweep number s settles; threw records that a
\* check of the sweep has thrown and is not read by the code
HealthCheckReturns(s, outcome) ==
  /\ s \in 1..Len(sweeps)
  /\ LET sw == sweeps[s]
         p == providerKeys[sw.idx]
         lhc == [q \in DOMAIN lastHealthCheck \cup {p} |->
                   IF q = p THEN sw.now ELSE lastHealthCheck[q]]
         j == NextDue(sw.idx + 1, providerKeys, lhc, now)
     IN /\ healthStatus' = [healthStatus EXCEPT ![p] = isHealthy(outcome)]
        /\ lastHealthCheck' = lhc
        /\ everHealthy' = IF outcome = "healthy" THEN everHealthy \cup {p} ELSE everHealthy
        /\ IF j # 0
           THEN /\ sweeps' = [sweeps EXCEPT ![s] =
                                [sw EXCEPT !.idx = j, !.now = now,
                                           !.threw = @ \/ outcome = "throws"]]
                /\ UNCHANGED timerStarted
           ELSE /\ sweeps' = RemoveAt(sweeps, s)
                /\ timerStarted' = (timerStarted \/ sw.initial)
  /\ UNCHANGED <<providers, config, now, rq, enh, fn>>

\* 60000 ms pass; once the timer is registered its callback starts a sweep
Tick ==
  /\ now < StartTime + MaxTicks
  /\ now' = now + 1
  /\ LET j == NextDue(1, providerKeys, lastHealthCheck, now + 1) IN
       IF timerStarted /\ j # 0
       THEN /\ Len(sweeps) < MaxSweeps
            /\ sweeps' = Append(sweeps, [idx |-> j, now |-> now + 1, initial |-> FALSE,
                                        threw |-> FALSE])
       ELSE UNCHANGED sweeps
  /\ UNCHANGED <<providers, config, healthStatus, lastHealthCheck, timerStarted, rq, enh, fn,
                 everHealthy>>

(***************************************************************************)
(* The monitor over unbounded time, with one provider whose checkHealth()  *)
(* never settles.  Only differences of times are read by the code, so a    *)
(* period that passes is recorded by moving every recorded time one tick   *)
(* back instead of moving the clock forward; a time older than the health  *)
(* check interval is kept at that age, which leaves the provider due.  A   *)
(* sweep that reaches the provider whose check never settles does nothing  *)
(* more and is dropped from sweeps.                                        *)
(***************************************************************************)
Hung == "imagen4"

aged(t) == Max(t - 1, now - HealthCheckIntervalTicks)

HealthCheckReturnsLive(s, outcome) ==
  /\ s \in 1..Len(sweeps)
  /\ providerKeys[sweeps[s].idx] # Hung
  /\ LET sw == sweeps[s]
         p == providerKeys[sw.idx]
         lhc == [q \in DOMAIN lastHealthCheck \cup {p} |->
                   IF q = p THEN sw.now ELSE lastHealthCheck[q]]
         j == NextDue(sw.idx + 1, providerKeys, lhc, now)
     IN /\ healthStatus' = [healthStatus EXCEPT ![p] = isHealthy(outcome)]
        /\ lastHealthCheck' = lhc
        /\ everHealthy' = IF outcome = "healthy" THEN everHealthy \cup {p} ELSE everHealthy
        /\ IF j # 0 /\ providerKeys[j] # Hung
           THEN /\ sweeps' = [sweeps EXCEPT ![s] =
                                [sw EXCEPT !.idx = j, !.now = now,
                                           !.threw = @ \/ outcome = "throws"]]
                /\ UNCHANGED timerStarted
           ELSE /\ sweeps' = RemoveAt(sweeps, s)
                /\ timerStarted' = (timerStarted \/ (sw.initial /\ j = 0))
  /\ UNCHANGED <<providers, config, now, rq, enh, fn>>

TickLive ==
  LET lhc == [q \in DOMAIN lastHealthCheck |-> aged(lastHealthCheck[q])]
      running == [s \in 1..Len(sweeps) |-> [sweeps[s] EXCEPT !.now = aged(@)]]
      j == NextDue(1, providerKeys, lhc, now)
  IN /\ lastHealthCheck' = lhc
     /\ IF timerStarted /\ j # 0 /\ providerKeys[j] # Hung
        THEN /\ Len(sweeps) < MaxSweeps
             /\ sweeps' = Append(running, [idx |-> j, now |-> now, initial |-> FALSE,
                                           threw |-> FALSE])
        ELSE sweeps' = running
     /\ UNCHANGED <<providers, config, healthStatus, now, timerStarted, rq, enh, fn,
                    everHealthy>>

(***************************************************************************)
(* ProviderManager.enableProvider, disableProvider                         *)
(***************************************************************************)
enableProvider(p) ==
  /\ IF p \in DOMAIN config
     THEN config' = [config EXCEPT ![p].enabled = TRUE]
     ELSE UNCHANGED config
  /\ UNCHANGED <<providers, healthStatus, lastHealthCheck, now, timerStarted, sweeps, rq, enh,
                 fn, everHealthy>>

disableProvider(p) ==
  /\ IF p \in DOMAIN config
     THEN config' = [config EXCEPT ![p].enabled = FALSE]
     ELSE UNCHANGED config
  /\ UNCHANGED <<providers, healthStatus, lastHealthCheck, now, timerStarted, sweeps, rq, enh,
                 fn, everHealthy>>

(***************************************************************************)
(* Errors.  An error is a record: source is the adapter that raised it,    *)
(* message its text, status the HTTP status of error.response (0: there is *)
(* no response) and retryAfter the retry-after header of that response     *)
(* (HeaderAbsent, HeaderNotNumeric, or the non-negative number it holds).  *)
(***************************************************************************)
HeaderAbsent == -1
HeaderNotNumeric == -2
NaN == -3

Error(source, message) ==
  [source |-> source, message |-> message, status |-> 0, retryAfter |-> HeaderAbsent,
   cause |-> <<>>]
HttpError(source, status, header) ==
  [source |-> source, message |-> "Request failed", status |-> status,
   retryAfter |-> header, cause |-> <<>>]

\* the text of error.message; cause is the text a message embeds
messageOf(e) == <<e.source, e.message, e.status, e.cause>>

Manager == "ProviderManager"
NoSuitableProviders == Error(Manager, "No suitable providers available")
\* variant: the aggregated error does not embed the last error
AllProvidersFailedWithoutCause(lastError) ==
  Error(Manager, "All providers failed. Last error: ")

AllProvidersFailed(lastError) ==
  [Error(Manager, "All providers failed. Last error: ")
     EXCEPT !.cause = IF lastError = <<>> THEN <<Undefined>> ELSE messageOf(lastError[1])]

(***************************************************************************)
(* BaseImageProvider.mapError                                              *)
(***************************************************************************)
parseInt(header) ==
  IF header = HeaderAbsent THEN DefaultRetryAfterSec
  ELSE IF header = HeaderNotNumeric THEN NaN
  ELSE header

\* variant: every error that has a response is classified as retryable
mapErrorAllRetryable(error) ==
  IF error.status = 429
  THEN [code |-> "RATE_LIMIT_EXCEEDED", retryable |-> TRUE,
        retryAfter |-> parseInt(error.retryAfter)]
  ELSE IF error.status >= 400
  THEN [code |-> "SERVER_ERROR", retryable |-> TRUE, retryAfter |-> 0]
  ELSE [code |-> "UNKNOWN_ERROR", retryable |-> FALSE, retryAfter |-> 0]

mapError(error) ==
  IF error.status = 429
  THEN [code |-> "RATE_LIMIT_EXCEEDED", retryable |-> TRUE,
        retryAfter |-> parseInt(error.retryAfter)]
  ELSE IF error.status >= 500
  THEN [code |-> "SERVER_ERROR", retryable |-> TRUE, retryAfter |-> 0]
  ELSE IF error.status = 400
  THEN [code |-> "INVALID_REQUEST", retryable |-> FALSE, retryAfter |-> 0]
  ELSE IF error.status = 401
  THEN [code |-> "UNAUTHORIZED", retryable |-> FALSE, retryAfter |-> 0]
  ELSE [code |-> "UNKNOWN_ERROR", retryable |-> FALSE, retryAfter |-> 0]

\* the delay of retryWithBackoff after the failed attempt number attempt, in ms
backoffDelay(providerError, attempt) ==
  IF providerError.retryAfter # 0 /\ providerError.retryAfter # NaN
  THEN providerError.retryAfter * 1000
  ELSE BaseDelayMs * Pow2(attempt - 1)

(***************************************************************************)
(* The cost an adapter reports in result.metadata.cost                     *)
(***************************************************************************)
DalleSizes == <<<<1024, 1024>>, <<1024, 1792>>, <<1792, 1024>>>>

\* DalleProvider.mapToValidSize
mapToValidSize(width, height) ==
  LET distance(i) == Abs(width - DalleSizes[i][1]) + Abs(height - DalleSizes[i][2])
      closest == CHOOSE i \in 1..Len(DalleSizes) :
                   \A j \in 1..Len(DalleSizes) :
                     distance(i) < distance(j) \/ (distance(i) = distance(j) /\ i <= j)
  IN DalleSizes[closest]

calculateActualCost(p, params) ==
  LET size == standardizeImageSize(params.width, params.height) IN
  CASE p = "dalleE3" ->
         LET isHD == params.quality = "hd"
             isLargeSize == mapToValidSize(size.width, size.height) # <<1024, 1024>>
         IN IF isHD /\ ~isLargeSize THEN DalleHighCost
            ELSE IF isLargeSize
                 THEN (IF isHD THEN DalleHdLargeCost ELSE DalleHighCost)
                 ELSE DalleStandardCost
    [] p = "imagen4" ->
         ImagenBaseImageCost
           + ((params.promptLength + params.negativePromptLength) * 4) \div 25
    [] OTHER ->
         LET pixelCount == roundTo64(size.width) * roundTo64(size.height)
             credits == (SdBaseCredits * pixelCount + SdBasePixels - 1) \div SdBasePixels
             samples == Min(IF params.count # 0 THEN params.count ELSE 1, 10)
         IN credits * samples * SdCostPerCredit

(***************************************************************************)
(* A stable sort of seq into descending order of keys (keys[i] is the key  *)
(* of seq[i]): Array.prototype.sort with the comparator b.key - a.key.     *)
(***************************************************************************)
\* variant: ascending order
SortAscending(seq, keys) ==
  LET n == Len(seq)
      position(i) == Cardinality({j \in 1..n : keys[j] < keys[i]})
                     + Cardinality({j \in 1..(i - 1) : keys[j] = keys[i]}) + 1
  IN [k \in 1..n |-> seq[CHOOSE i \in 1..n : position(i) = k]]

SortDescending(seq, keys) ==
  LET n == Len(seq)
      position(i) == Cardinality({j \in 1..n : keys[j] > keys[i]})
                     + Cardinality({j \in 1..(i - 1) : keys[j] = keys[i]}) + 1
  IN [k \in 1..n |-> seq[CHOOSE i \in 1..n : position(i) = k]]

(***************************************************************************)
(* ProviderManager.getFallbackProviders                                    *)
(***************************************************************************)
\* variant: the fallback providers in registration order
getFallbackProvidersUnsorted(excludeProvider) ==
  LET kept(p) == p # excludeProvider /\ p \in providers
  IN SelectSeq(AllProviders, kept)

getFallbackProviders(excludeProvider) ==
  LET kept(p) == p # excludeProvider /\ p \in providers
      filtered == SelectSeq(AllProviders, kept)
  IN SortDescending(filtered, [i \in 1..Len(filtered) |-> config[filtered[i]].priority])

(***************************************************************************)
(* ProviderManager.generateImage.  rq holds the locals of the call and pc  *)
(* the await it is suspended in:                                           *)
(*   selValidate   selectProvider: validateParams of the explicit provider *)
(*   evalValidate  evaluateProviders: validateParams of providerKeys[loopIdx] *)
(*   genValidate   adapter generateImage: its own validateParams           *)
(*   genAuth       Imagen generateImage: getClient / getAccessToken        *)
(*   genOp         retryWithBackoff: the remote operation                  *)
(*   genWait       retryWithBackoff: the backoff timer                     *)
(*   fbValidate    generateWithFallback: validateParams of a fallback      *)
(*   record        recordSuccess / recordFailure: cache.set                *)
(* The code between two awaits runs without interruption, so each action   *)
(* runs from the settling of one await to the next await.                  *)
(* The fields from genLog on record what happened and are not read by the *)
(* code: genLog the adapter generateImage calls of this request, skipped   *)
(* the fallback providers passed over, opCalls, opLog and waits the remote *)
(* calls, their outcomes and the backoff delays of the adapter call in     *)
(* progress, issued the image size sent with each of those remote calls,   *)
(* metrics the events written to the cache, atStart the state of the       *)
(* requested provider when the request arrived.                            *)
(***************************************************************************)
IdleRq ==
  [pc |-> "idle", params |-> WithProvider(BaseRequest, NoExplicit), startTime |-> 0,
   loopIdx |-> 0, candidates |-> <<>>, selection |-> <<>>, primary |-> NoProvider,
   fallbackProviders |-> <<>>, gen |-> NoProvider, role |-> "none", attempt |-> 0,
   lastError |-> <<>>, result |-> <<>>, thrown |-> <<>>, metricPending |-> <<>>,
   genLog |-> <<>>, skipped |-> {}, opCalls |-> 0, opLog |-> <<>>, waits |-> <<>>,
   issued |-> <<>>, metrics |-> <<>>, scorerRan |-> FALSE, explicitValidation |-> "none",
   atStart |-> [registered |-> FALSE, enabled |-> FALSE, healthy |-> FALSE]]

\* the first index j >= i of seq whose provider is available, 0 if there is none
NextAvailable(seq, i) ==
  LET S == {j \in i..Len(seq) : isProviderAvailable(seq[j])}
  IN IF S = {} THEN 0 ELSE CHOOSE j \in S : \A k \in S : j <= k

\* generateImage: the catch block, up to "await this.recordFailure"
Reject(st, err) ==
  [st EXCEPT !.pc = "record", !.thrown = <<err>>,
     !.metricPending =
        <<[provider |-> IF st.params.provider # NoExplicit
                        THEN st.params.provider ELSE NoProvider,
           success |-> FALSE, duration |-> now - st.startTime, cost |-> <<>>]>>]

\* generateImage: generateWithFallback returned, up to "await this.recordSuccess"
Resolve(st, res) ==
  [st EXCEPT !.pc = "record", !.result = <<res>>,
     !.metricPending =
        <<[provider |-> st.selection[1].provider, success |-> TRUE,
           duration |-> now - st.startTime, cost |-> <<res.cost>>]>>]

\* adapter generateImage is called: it runs up to "await this.validateParams"
BeginGenerate(st, p, role) ==
  [st EXCEPT !.pc = "genValidate", !.gen = p, !.role = role, !.attempt = 0,
     !.opCalls = 0, !.opLog = <<>>, !.waits = <<>>, !.issued = <<>>,
     !.genLog = Append(@, [provider |-> p, role |-> role, settled |-> "pending",
                           error |-> <<>>])]

SettleLog(st, how, err) ==
  LET n == Len(st.genLog)
  IN [st EXCEPT !.genLog = [st.genLog EXCEPT ![n] =
                              [st.genLog[n] EXCEPT !.settled = how, !.error = err]]]

\* generateWithFallback: the loop over the fallback providers from index i
tryFallbacks(st, i) ==
  LET j == NextAvailable(st.fallbackProviders, i)
      last == IF j # 0 THEN j - 1 ELSE Len(st.fallbackProviders)
      passed == [st EXCEPT !.skipped = @ \cup {st.fallbackProviders[k] : k \in i..last}]
  IN IF j # 0
     THEN [passed EXCEPT !.pc = "fbValidate", !.loopIdx = j]
     ELSE Reject(passed, AllProvidersFailed(st.lastError))

\* variant: the failed primary provider is not excluded from the fallbacks
adapterThrowsKeepingPrimary(st, err) ==
  LET failed == [SettleLog(st, "failed", <<err>>) EXCEPT !.lastError = <<err>>]
  IN IF st.role = "direct"
     THEN [failed EXCEPT !.pc = "done", !.thrown = <<err>>]
     ELSE IF st.role = "primary"
     THEN tryFallbacks([failed EXCEPT !.fallbackProviders = getFallbackProviders(NoProvider)], 1)
     ELSE tryFallbacks(failed, st.loopIdx + 1)

\* the adapter call throws err: to generateWithFallback, or to the caller of
\* the adapter when it was called directly
adapterThrows(st, err) ==
  LET failed == [SettleLog(st, "failed", <<err>>) EXCEPT !.lastError = <<err>>]
  IN IF st.role = "direct"
     THEN [failed EXCEPT !.pc = "done", !.thrown = <<err>>]
     ELSE IF st.role = "primary"
     THEN tryFallbacks([failed EXCEPT !.fallbackProviders = getFallbackProviders(st.gen)], 1)
     ELSE tryFallbacks(failed, st.loopIdx + 1)

\* the adapter call returns res
adapterReturns(st, res) ==
  IF st.role = "direct"
  THEN [SettleLog(st, "ok", <<>>) EXCEPT !.pc = "done", !.result = <<res>>]
  ELSE Resolve(SettleLog(st, "ok", <<>>), res)

\* generateImage from the return of selectProvider to the primary adapter call
generateWithFallback(st) ==
  LET p == st.selection[1].provider
  IN IF p \notin providers
     THEN Reject(st, Error(Manager, "Provider not available"))
     ELSE BeginGenerate([st EXCEPT !.primary = p], p, "primary")

\* selectProvider after evaluateProviders returned its candidates
selectBest(st) ==
  IF st.candidates = <<>>
  THEN Reject(st, NoSuitableProviders)
  ELSE LET sorted == SortDescending(st.candidates,
                       [i \in 1..Len(st.candidates) |-> st.candidates[i].score])
           best == sorted[1]
       IN generateWithFallback(
            [st EXCEPT !.candidates = sorted,
               !.selection = <<[provider |-> best.provider, reason |-> best.reason,
                                estimatedCost |-> best.estimatedCost,
                                confidence |-> best.score]>>])

\* evaluateProviders: the loop over the registered providers from index i
evaluateProviders(st, i) ==
  LET j == NextAvailable(providerKeys, i)
  IN IF j # 0
     THEN [st EXCEPT !.pc = "evalValidate", !.loopIdx = j, !.scorerRan = TRUE]
     ELSE selectBest([st EXCEPT !.scorerRan = TRUE])

\* variant: the requested provider is not honoured
selectProviderByScore(st) == evaluateProviders(st, 1)

selectProvider(st) ==
  IF st.params.provider # NoExplicit /\ isProviderAvailable(st.params.provider)
  THEN [st EXCEPT !.pc = "selValidate"]
  ELSE evaluateProviders(st, 1)

\* the width and height an adapter computes for the body of its remote call
\* (the Imagen adapter derives the aspect ratio it sends from them)
requestSize(p, params) ==
  LET size == standardizeImageSize(params.width, params.height)
  IN CASE p = "dalleE3" -> mapToValidSize(size.width, size.height)
       [] p = "imagen4" -> <<size.width, size.height>>
       [] OTHER -> <<roundTo64(size.width), roundTo64(size.height)>>

\* retryWithBackoff: the next attempt invokes the operation
invokeOperation(st) ==
  [st EXCEPT !.pc = "genOp", !.attempt = @ + 1, !.opCalls = @ + 1,
     !.issued = Append(@, requestSize(st.gen, st.params))]

generateImage(r) ==
  /\ rq.pc \in {"idle", "done"}
  /\ rq' = selectProvider(
             [IdleRq EXCEPT !.params = r, !.startTime = now,
                !.atStart = [registered |-> r.provider \in providers,
                             enabled |-> r.provider \in DOMAIN config
                                         /\ config[r.provider].enabled,
                             healthy |-> healthStatusGet(r.provider)]])
  /\ UNCHANGED monVars

SelValidateReturns(authOk) ==
  /\ rq.pc = "selValidate"
  /\ authOk \in AuthOutcomes(rq.params.provider)
  /\ LET p == rq.params.provider
         validation == validateParams(p, rq.params, authOk)
     IN rq' = IF validation.valid
              THEN generateWithFallback(
                     [rq EXCEPT !.explicitValidation = "valid",
                        !.selection = <<[provider |-> p, reason |-> "User specified",
                                         estimatedCost |-> estimateCost(p, rq.params).totalCost,
                                         confidence |-> ScoreOne]>>])
              ELSE evaluateProviders([rq EXCEPT !.explicitValidation = "invalid"], 1)
  /\ UNCHANGED monVars

EvalValidateReturns(authOk) ==
  /\ rq.pc = "evalValidate"
  /\ LET p == providerKeys[rq.loopIdx]
         validation == validateParams(p, rq.params, authOk)
         capabilities == getCapabilities(p)
         costEstimate == estimateCost(p, rq.params)
         score == calculateProviderScore(capabilities, costEstimate, config[p])
         candidate == [provider |-> p, score |-> score,
                       reason |-> generateSelectionReason(score, costEstimate, capabilities),
                       estimatedCost |-> costEstimate.totalCost]
     IN /\ authOk \in AuthOutcomes(p)
        /\ rq' = IF validation.valid
                 THEN evaluateProviders([rq EXCEPT !.candidates = Append(@, candidate)],
                                        rq.loopIdx + 1)
                 ELSE evaluateProviders(rq, rq.loopIdx + 1)
  /\ UNCHANGED monVars

\* variant: the request is sent although it is not valid
invalidParametersIgnored(st, errors) ==
  IF st.gen = "imagen4" THEN [st EXCEPT !.pc = "genAuth"] ELSE invokeOperation(st)

\* generateImage of an adapter: validateParams reported errors
invalidParameters(st, errors) ==
  adapterThrows(st, [Error(st.gen, "Invalid parameters") EXCEPT !.cause = <<errors>>])

\* a caller other than the ProviderManager calls generateImage of adapter p
AdapterGenerate(p, r) ==
  /\ rq.pc \in {"idle", "done"}
  /\ p \in providers
  /\ rq' = BeginGenerate([IdleRq EXCEPT !.params = r, !.startTime = now], p, "direct")
  /\ UNCHANGED monVars

GenValidateReturns(authOk) ==
  /\ rq.pc = "genValidate"
  /\ authOk \in AuthOutcomes(rq.gen)
  /\ rq' = IF ~validateParams(rq.gen, rq.params, authOk).valid
           THEN invalidParameters(rq, validateParams(rq.gen, rq.params, authOk).errors)
           ELSE IF rq.gen = "imagen4"
                THEN [rq EXCEPT !.pc = "genAuth"]
                ELSE invokeOperation(rq)
  /\ UNCHANGED monVars

GenAuthReturns(tokenOk) ==
  /\ rq.pc = "genAuth"
  /\ rq' = IF tokenOk
           THEN invokeOperation(rq)
           ELSE adapterThrows(rq, Error(rq.gen, "Failed to obtain Google Cloud access token"))
  /\ UNCHANGED monVars

\* variant: one attempt more
rethrowsOneLater(providerError, attempt, maxRetries) ==
  ~providerError.retryable \/ attempt = maxRetries + 1

\* retryWithBackoff: the failed attempt is the last one
rethrows(providerError, attempt, maxRetries) ==
  ~providerError.retryable \/ attempt = maxRetries

\* the remote operation of attempt rq.attempt settles with outcome o
OperationSettles(o) ==
  /\ rq.pc = "genOp"
  /\ LET st == [rq EXCEPT !.opLog = Append(@, o)]
     IN rq' = IF o.kind = "ok"
              THEN adapterReturns(st, [provider |-> rq.gen,
                                       cost |-> calculateActualCost(rq.gen, rq.params)])
              ELSE IF o.kind = "empty"
              THEN adapterThrows(st, Error(rq.gen, "No image returned"))
              ELSE LET error == HttpError(rq.gen, o.status, o.retryAfter)
                       providerError == mapError(error)
                   IN IF rethrows(providerError, rq.attempt, DefaultMaxRetries)
                      THEN adapterThrows(st, error)
                      ELSE [st EXCEPT !.pc = "genWait",
                              !.waits = Append(@, backoffDelay(providerError, rq.attempt))]
  /\ UNCHANGED monVars

WaitElapses ==
  /\ rq.pc = "genWait"
  /\ rq' = invokeOperation(rq)
  /\ UNCHANGED monVars

FbValidateReturns(authOk) ==
  /\ rq.pc = "fbValidate"
  /\ LET p == rq.fallbackProviders[rq.loopIdx]
     IN /\ authOk \in AuthOutcomes(p)
        /\ rq' = IF validateParams(p, rq.params, authOk).valid
                 THEN BeginGenerate(rq, p, "fallback")
                 ELSE tryFallbacks([rq EXCEPT !.skipped = @ \cup {p}], rq.loopIdx + 1)
  /\ UNCHANGED monVars

(***************************************************************************)
(* CacheService.get and set.  The backend call either answers or fails;    *)
(* what the method does to its caller is a record: threw tells whether the *)
(* method threw, value is what it returned (<<>> is null).                 *)
(***************************************************************************)
CacheBackend == "CacheService"
GetOutcomes == {"hit", "miss", "unparsable", "error"}

\* variant: a failure of the backend escapes the method
cacheGetThrowing(outcome) ==
  [threw |-> outcome \in {"unparsable", "error"},
   value |-> IF outcome = "hit" THEN <<"cached">> ELSE <<>>]

cacheGet(outcome) ==
  [threw |-> FALSE, value |-> IF outcome = "hit" THEN <<"cached">> ELSE <<>>]

\* variant: a failure of the backend escapes the method
cacheSetThrowing(backendOk) == [threw |-> ~backendOk, value |-> backendOk]

cacheSet(backendOk) == [threw |-> FALSE, value |-> backendOk]

\* cache.set of recordSuccess / recordFailure settles
RecordReturns(cacheOk) ==
  /\ rq.pc = "record"
  /\ LET written == cacheSet(cacheOk)
         cacheError == Error(CacheBackend, "cache set failed")
     IN rq' = IF ~written.threw
              THEN [rq EXCEPT !.pc = "done",
                      !.metrics = IF written.value THEN @ \o rq.metricPending ELSE @]
              ELSE IF rq.thrown = <<>>
              THEN Reject([rq EXCEPT !.result = <<>>], cacheError)
              ELSE [rq EXCEPT !.pc = "done", !.thrown = <<cacheError>>]
  /\ UNCHANGED monVars

(***************************************************************************)
(* PromptEnhancerService.enhancePrompt.  enh.pc is the await the call is   *)
(* suspended in: cacheGet, model (the chat completion) or cacheSet.  got,  *)
(* answer and stored record the outcomes of the three awaits.              *)
(***************************************************************************)
Enhancer == "PromptEnhancerService"
ModelOutcomes == {"text", "empty", "throws"}

IdleEnh ==
  [pc |-> "idle", result |-> <<>>, thrown |-> <<>>, modelCalls |-> 0,
   got |-> "none", answer |-> "none", stored |-> "none"]

\* enhancePrompt: the catch block
enhanceFails(st, err) ==
  [st EXCEPT !.pc = "done",
     !.thrown = <<[Error(Enhancer, "Prompt enhancement failed: ")
                     EXCEPT !.cause = messageOf(err)]>>]

enhancePrompt ==
  /\ enh.pc \in {"idle", "done"}
  /\ enh' = [IdleEnh EXCEPT !.pc = "cacheGet"]
  /\ UNCHANGED <<providers, config, healthStatus, lastHealthCheck, now, timerStarted,
                 sweeps, rq, fn, everHealthy>>

EnhCacheGetReturns(outcome) ==
  /\ enh.pc = "cacheGet"
  /\ LET cached == cacheGet(outcome)
         st == [enh EXCEPT !.got = outcome]
     IN enh' = IF cached.threw
               THEN enhanceFails(st, Error(CacheBackend, "cache get failed"))
               ELSE IF cached.value # <<>>
               THEN [st EXCEPT !.pc = "done", !.result = cached.value]
               ELSE [st EXCEPT !.pc = "model", !.modelCalls = @ + 1]
  /\ UNCHANGED <<providers, config, healthStatus, lastHealthCheck, now, timerStarted,
                 sweeps, rq, fn, everHealthy>>

EnhModelReturns(outcome) ==
  /\ enh.pc = "model"
  /\ LET st == [enh EXCEPT !.answer = outcome]
     IN enh' = CASE outcome = "text" -> [st EXCEPT !.pc = "cacheSet"]
                 [] outcome = "empty" ->
                      enhanceFails(st, Error(Enhancer, "No enhancement generated"))
                 [] OTHER -> enhanceFails(st, Error("openai", "Request failed"))
  /\ UNCHANGED <<providers, config, healthStatus, lastHealthCheck, now, timerStarted,
                 sweeps, rq, fn, everHealthy>>

EnhCacheSetReturns(cacheOk) ==
  /\ enh.pc = "cacheSet"
  /\ LET written == cacheSet(cacheOk)
         st == [enh EXCEPT !.stored = IF cacheOk THEN "stored" ELSE "failed"]
     IN enh' = IF written.threw
               THEN enhanceFails(st, Error(CacheBackend, "cache set failed"))
               ELSE [st EXCEPT !.pc = "done", !.result = <<"enhanced">>]
  /\ UNCHANGED <<providers, config, healthStatus, lastHealthCheck, now, timerStarted,
                 sweeps, rq, fn, everHealthy>>

(***************************************************************************)
(* Calls of the adapters' helper functions.  A string is the sequence of   *)
(* its characters.                                                         *)
(***************************************************************************)
NoCall == [op |-> "none", arg |-> <<>>, out |-> <<>>]
Called(op, arg, out) ==
  /\ fn' = [op |-> op, arg |-> arg, out |-> out]
  /\ UNCHANGED <<providers, config, healthStatus, lastHealthCheck, now, timerStarted,
                 sweeps, rq, enh, everHealthy>>

Chars == {"a", " "}
Prompts == UNION {[1..n -> Chars] : n \in 0..MaxPromptChars}

\* String.prototype.substring(0, end)
substring(str, end) == SubSeq(str, 1, Min(Max(end, 0), Len(str)))

\* String.prototype.lastIndexOf(ch): the index counts from 0, -1 if absent
lastIndexOf(str, ch) ==
  LET S == {i \in 1..Len(str) : str[i] = ch}
  IN IF S = {} THEN 0 - 1 ELSE (CHOOSE i \in S : \A j \in S : j <= i) - 1

\* BaseImageProvider.truncatePrompt
truncatePrompt(prompt, maxLength) ==
  IF Len(prompt) <= maxLength
  THEN prompt
  ELSE LET truncated == substring(prompt, maxLength)
           lastSpace == lastIndexOf(truncated, " ")
       IN IF lastSpace > 0 THEN substring(truncated, lastSpace) ELSE truncated

TruncatePromptCall(prompt, maxLength) ==
  Called("truncatePrompt", <<prompt, maxLength>>, truncatePrompt(prompt, maxLength))

\* cost estimates per image, in money units: free, the adapters' prices, the
\* cost that scores 0 and one beyond it
SampleCosts == {0, ImagenBaseImageCost, DalleStandardCost, DalleHdLargeCost, MaxCost, MaxCost + DalleStandardCost}

ScoreCall(p, costPerImage) ==
  /\ p \in providers
  /\ Called("calculateProviderScore", [provider |-> p, costPerImage |-> costPerImage],
            calculateProviderScore(getCapabilities(p),
              [totalCost |-> costPerImage, costPerImage |-> costPerImage], config[p]))

\* the HTTP status of a failed remote call, 0 when the failure has no response
ErrorStatuses == {0, 400, 401, 403, 404, 429, 500, 503, 599}
RetryAfterHeaders == {HeaderAbsent, HeaderNotNumeric, 0, 2}

MapErrorCall(status, header) ==
  LET error == HttpError("adapter", status, header)
  IN Called("mapError", error, mapError(error))

\* outcomes of the remote call
Ok == [kind |-> "ok", status |-> 0, retryAfter |-> HeaderAbsent]
Empty == [kind |-> "empty", status |-> 0, retryAfter |-> HeaderAbsent]
Failure(status, header) == [kind |-> "error", status |-> status, retryAfter |-> header]
RemoteOutcomes == {Ok, Failure(500, HeaderAbsent)}
AllRemoteOutcomes ==
  {Ok, Empty}
  \cup {Failure(st, HeaderAbsent) : st \in {0, 400, 401, 403, 500, 503}}
  \cup {Failure(429, h) : h \in {HeaderAbsent, HeaderNotNumeric, 0, 2}}
RetryRequests ==
  {WithProvider(BaseRequest, p) : p \in {NoExplicit, "imagen4", "stableDiffusion"}}

(***************************************************************************)
(* The state after "new ProviderManager()": the adapters whose credentials *)
(* are present are registered and unhealthy, and the initial sweep is      *)
(* suspended in the health check of the first registered provider.         *)
(***************************************************************************)
\* variant: the registered adapters start healthy
InitAssumingHealthy ==
  /\ providers \in (SUBSET ProviderNames) \ {{}}
  /\ config = initializeDefaultConfig
  /\ healthStatus = [p \in providers |-> TRUE]
  /\ lastHealthCheck = <<>>
  /\ now = StartTime
  /\ timerStarted = FALSE
  /\ sweeps = <<[idx |-> 1, now |-> StartTime, initial |-> TRUE, threw |-> FALSE]>>
  /\ rq = IdleRq
  /\ enh = IdleEnh
  /\ fn = NoCall
  /\ everHealthy = {}

Init ==
  /\ providers \in (SUBSET ProviderNames) \ {{}}
  /\ config = initializeDefaultConfig
  /\ healthStatus = [p \in providers |-> FALSE]
  /\ lastHealthCheck = <<>>
  /\ now = StartTime
  /\ timerStarted = FALSE
  /\ sweeps = <<[idx |-> 1, now |-> StartTime, initial |-> TRUE, threw |-> FALSE]>>
  /\ rq = IdleRq
  /\ enh = IdleEnh
  /\ fn = NoCall
  /\ everHealthy = {}

\* The orchestrator: requests, enable/disable calls and the initial health
\* sweep, while less than one timer period passes.
Next ==
  \/ \E s \in 1..MaxSweeps, o \in HealthOutcomes : HealthCheckReturns(s, o)
  \/ \E p \in ProviderNames : enableProvider(p)
  \/ \E p \in ProviderNames : disableProvider(p)
  \/ \E r \in Requests : generateImage(r)
  \/ \E ok \in BOOLEAN : SelValidateReturns(ok)
  \/ \E ok \in BOOLEAN : EvalValidateReturns(ok)
  \/ \E ok \in BOOLEAN : GenValidateReturns(ok)
  \/ \E ok \in BOOLEAN : GenAuthReturns(ok)
  \/ \E o \in RemoteOutcomes : OperationSettles(o)
  \/ WaitElapses
  \/ \E ok \in BOOLEAN : FbValidateReturns(ok)
  \/ \E ok \in BOOLEAN : RecordReturns(ok)

Spec == Init /\ [][Next]_vars

\* The adapters' retry loop under every class of remote failure.
NextRetry ==
  \/ \E s \in 1..MaxSweeps, o \in HealthOutcomes : HealthCheckReturns(s, o)
  \/ \E r \in RetryRequests : generateImage(r)
  \/ \E ok \in BOOLEAN : SelValidateReturns(ok)
  \/ \E ok \in BOOLEAN : EvalValidateReturns(ok)
  \/ \E ok \in BOOLEAN : GenValidateReturns(ok)
  \/ \E ok \in BOOLEAN : GenAuthReturns(ok)
  \/ \E o \in AllRemoteOutcomes : OperationSettles(o)
  \/ WaitElapses
  \/ \E ok \in BOOLEAN : RecordReturns(ok)

\* one adapter is registered, so that the call in progress is the only one
InitRetry == Init /\ Cardinality(providers) = 1

SpecRetry == InitRetry /\ [][NextRetry]_vars

\* The registry and the health monitor over several timer periods.
NextHealth ==
  \/ \E s \in 1..MaxSweeps, o \in HealthOutcomes : HealthCheckReturns(s, o)
  \/ Tick
  \/ \E p \in ProviderNames : enableProvider(p)
  \/ \E p \in ProviderNames : disableProvider(p)

SpecHealth == Init /\ [][NextHealth]_vars

\* Requests that arrive while the initial sweep runs and while later sweeps
\* check the providers again.
StartupRequests == {WithProvider(BaseRequest, NoExplicit)}

NextStartup ==
  \/ \E s \in 1..MaxSweeps, o \in HealthOutcomes : HealthCheckReturns(s, o)
  \/ Tick
  \/ \E r \in StartupRequests : generateImage(r)
  \/ \E ok \in BOOLEAN : EvalValidateReturns(ok)
  \/ \E ok \in BOOLEAN : GenValidateReturns(ok)
  \/ \E o \in RemoteOutcomes : OperationSettles(o)
  \/ WaitElapses
  \/ \E ok \in BOOLEAN : FbValidateReturns(ok)
  \/ \E ok \in BOOLEAN : RecordReturns(ok)

\* two adapters are registered, so that the second one is the only fallback
InitStartup == Init /\ providers = {"dalleE3", "stableDiffusion"}

SpecStartup == InitStartup /\ [][NextStartup]_vars

\* The monitor for ever: the timer fires again and again, and every health
\* check except those of the provider Hung settles.
NextLive ==
  \/ \E s \in 1..MaxSweeps, o \in HealthOutcomes : HealthCheckReturnsLive(s, o)
  \/ TickLive

SpecLive ==
  /\ Init
  /\ [][NextLive]_vars
  /\ WF_vars(TickLive)
  /\ WF_vars(\E s \in 1..MaxSweeps, o \in HealthOutcomes : HealthCheckReturnsLive(s, o))

\* Requests and prompt enhancement over a cache backend that may fail.
NextCache ==
  \/ \E s \in 1..MaxSweeps, o \in HealthOutcomes : HealthCheckReturns(s, o)
  \/ \E r \in RetryRequests : generateImage(r)
  \/ \E ok \in BOOLEAN : SelValidateReturns(ok)
  \/ \E ok \in BOOLEAN : EvalValidateReturns(ok)
  \/ \E ok \in BOOLEAN : GenValidateReturns(ok)
  \/ \E ok \in BOOLEAN : GenAuthReturns(ok)
  \/ \E o \in RemoteOutcomes : OperationSettles(o)
  \/ WaitElapses
  \/ \E ok \in BOOLEAN : RecordReturns(ok)
  \/ enhancePrompt
  \/ \E o \in GetOutcomes : EnhCacheGetReturns(o)
  \/ \E o \in ModelOutcomes : EnhModelReturns(o)
  \/ \E ok \in BOOLEAN : EnhCacheSetReturns(ok)

SpecCache == InitRetry /\ [][NextCache]_vars

\* Requests for one or two images of several sizes, served by one adapter.
SampleSizes == {0, 128, 900, 1024, 1792, 2000}

SizeRequests ==
  {WithProvider([BaseRequest EXCEPT !.width = w, !.height = h, !.count = c], p) :
     w \in SampleSizes, h \in SampleSizes, c \in {0, 2}, p \in {NoExplicit, "dalleE3"}}

NextSizes ==
  \/ \E s \in 1..MaxSweeps, o \in HealthOutcomes : HealthCheckReturns(s, o)
  \/ \E r \in SizeRequests : generateImage(r)
  \/ \E ok \in BOOLEAN : SelValidateReturns(ok)
  \/ \E ok \in BOOLEAN : EvalValidateReturns(ok)
  \/ \E ok \in BOOLEAN : GenValidateReturns(ok)
  \/ \E ok \in BOOLEAN : GenAuthReturns(ok)
  \/ \E o \in RemoteOutcomes : OperationSettles(o)
  \/ WaitElapses
  \/ \E ok \in BOOLEAN : RecordReturns(ok)

SpecSizes == InitRetry /\ [][NextSizes]_vars

\* The adapters called directly, with requests that violate their limits in
\* several ways at once.
AdapterRequests ==
  {WithProvider([BaseRequest EXCEPT !.promptLength = l, !.negativePromptLength = n,
                                    !.width = w, !.count = c, !.seed = sd], NoExplicit) :
     l \in {0, 250, 5000}, n \in {0, 10}, w \in {0, 900}, c \in {0, 11}, sd \in {0, 7}}

NextAdapter ==
  \/ \E p \in ProviderNames, r \in AdapterRequests : AdapterGenerate(p, r)
  \/ \E ok \in BOOLEAN : GenValidateReturns(ok)
  \/ \E ok \in BOOLEAN : GenAuthReturns(ok)
  \/ \E o \in RemoteOutcomes : OperationSettles(o)
  \/ WaitElapses

SpecAdapter == InitRetry /\ [][NextAdapter]_vars

\* The helper functions of the adapters, called with every argument of a
\* bounded set.
NextHelpers ==
  \/ \E prompt \in Prompts, maxLength \in 0..MaxPromptChars :
       TruncatePromptCall(prompt, maxLength)
  \/ \E status \in ErrorStatuses, header \in RetryAfterHeaders :
       MapErrorCall(status, header)

SpecHelpers == InitRetry /\ [][NextHelpers]_vars

\* The scorer, called for every registered provider in every health state.
NextScore ==
  \/ \E s \in 1..MaxSweeps, o \in HealthOutcomes : HealthCheckReturns(s, o)
  \/ \E p \in ProviderNames, c \in SampleCosts : ScoreCall(p, c)

SpecScore == Init /\ [][NextScore]_vars

(***************************************************************************)
(* Properties of the orchestrator                                          *)
(***************************************************************************)

\* C1: when the primary provider's generate call fails, the fallback
\* providers are attempted in descending priority, a provider is passed over
\* only if it is unavailable or fails validation at that moment, a fallback
\* is entered only while it is available, the first fallback that succeeds
\* supplies the result of generateImage, and no provider is attempted after
\* it.
C1FallbackChain ==
  /\ [](LET log == rq.genLog
            n == Len(log)
            others == providers \ {rq.primary}
            before(i) == {log[k].provider : k \in 1..(i - 1)}
            higher(p) == {q \in others : config[q].priority > config[p].priority}
        IN (n >= 1 /\ log[1].settled = "failed") =>
             /\ \A i \in 2..n :
                  /\ log[i].provider \in others
                  /\ log[i - 1].settled = "failed"
                  /\ \A k \in 2..(i - 1) :
                       config[log[k].provider].priority > config[log[i].provider].priority
                  /\ higher(log[i].provider) \subseteq before(i) \cup rq.skipped
                  /\ log[i].provider \notin rq.skipped
             /\ \A i \in 2..n :
                  log[i].settled = "ok" =>
                    /\ i = n
                    /\ rq.pc \in {"record", "done"}
                    /\ rq.thrown = <<>>
                    /\ rq.result = <<[provider |-> log[i].provider,
                                      cost |-> calculateActualCost(log[i].provider, rq.params)]>>)
  /\ [][/\ \A p \in rq'.skipped \ rq.skipped :
             \/ ~isProviderAvailable(p)
             \/ /\ rq.pc = "fbValidate"
                /\ p = rq.fallbackProviders[rq.loopIdx]
                /\ (p = "imagen4" \/ ~validateParams(p, rq.params, TRUE).valid)
        /\ (rq' # rq /\ rq'.pc = "fbValidate") =>
             isProviderAvailable(rq'.fallbackProviders[rq'.loopIdx])]_vars

\* the primary failed, the highest-priority fallback served the request and a
\* registered provider of lower priority was never called
C1Witness ==
  /\ rq.pc = "done"
  /\ Len(rq.genLog) = 2
  /\ rq.genLog[1].settled = "failed"
  /\ rq.genLog[2].settled = "ok"
  /\ rq.result # <<>>
  /\ \E q \in providers :
       /\ q \notin {rq.genLog[1].provider, rq.genLog[2].provider}
       /\ q \notin rq.skipped
       /\ config[q].priority < config[rq.genLog[2].provider].priority

\* C2 as stated: a request that is not served is rejected with an error
\* whose message embeds the error text of the last adapter attempted.
C2LastAdapterError ==
  (rq.pc = "done" /\ rq.result = <<>>) =>
    /\ rq.thrown # <<>>
    /\ rq.genLog # <<>>
    /\ rq.thrown[1].cause = messageOf(rq.genLog[Len(rq.genLog)].error[1])

\* C2, amended: a request that is not served is rejected; if an adapter was
\* called, the message embeds the error text of the last adapter called, and
\* the providers passed over after it do not change that; if no adapter was
\* called, the message is "No suitable providers available".
C2RejectionMessage ==
  (rq.pc \in {"record", "done"} /\ rq.result = <<>>) =>
    /\ rq.thrown # <<>>
    /\ \A i \in 1..Len(rq.genLog) : rq.genLog[i].settled = "failed"
    /\ IF rq.genLog = <<>>
       THEN rq.thrown[1] = NoSuitableProviders
       ELSE /\ rq.thrown[1].source = Manager
            /\ rq.thrown[1].message = "All providers failed. Last error: "
            /\ rq.thrown[1].cause = messageOf(rq.genLog[Len(rq.genLog)].error[1])

\* every adapter called failed and a fallback was passed over after the last
\* call
C2Witness ==
  /\ rq.pc = "done"
  /\ rq.thrown # <<>>
  /\ Len(rq.genLog) = 2
  /\ Len(rq.fallbackProviders) = 2
  /\ rq.fallbackProviders[2] \in rq.skipped
  /\ rq.genLog[1].error # rq.genLog[2].error

\* C3: a request that names a provider which is registered, enabled and
\* healthy when the request arrives and whose validation passes selects that
\* provider with confidence 1.0 without running the scorer; if the call to
\* that provider does not fail it is the only adapter call of the request
\* and its result is returned.
C3ExplicitProvider ==
  LET p == rq.params.provider
      named == /\ rq.pc # "idle"
               /\ p # NoExplicit
               /\ rq.atStart.registered /\ rq.atStart.enabled /\ rq.atStart.healthy
  IN named =>
       \/ rq.pc = "selValidate" /\ rq.explicitValidation = "none"
       \/ /\ rq.explicitValidation = "invalid"
          /\ (p = "imagen4" \/ ~validateParams(p, rq.params, TRUE).valid)
       \/ /\ rq.explicitValidation = "valid"
          /\ validateParams(p, rq.params, TRUE).valid
          /\ Len(rq.selection) = 1
          /\ rq.selection[1].provider = p
          /\ rq.selection[1].confidence = ScoreOne
          /\ ~rq.scorerRan
          /\ rq.candidates = <<>>
          /\ rq.genLog # <<>>
          /\ rq.genLog[1].provider = p
          /\ rq.genLog[1].settled = "ok" =>
               /\ Len(rq.genLog) = 1
               /\ rq.thrown = <<>>
               /\ rq.result = <<[provider |-> p,
                                 cost |-> calculateActualCost(p, rq.params)]>>

\* the named provider served the request although another provider scores
\* higher
C3Witness ==
  /\ rq.pc = "done"
  /\ rq.params.provider = "imagen4"
  /\ rq.explicitValidation = "valid"
  /\ isProviderAvailable("stableDiffusion")
  /\ rq.genLog = <<[provider |-> "imagen4", role |-> "primary", settled |-> "ok",
                    error |-> <<>>]>>
  /\ rq.result # <<>>

C5UnhealthyStillAttempted ==
  LET p == rq.params.provider
  IN (/\ rq.pc = "done"
      /\ p # NoExplicit
      /\ rq.atStart.registered /\ rq.atStart.enabled /\ ~rq.atStart.healthy) =>
       \E i \in 1..Len(rq.genLog) : rq.genLog[i].provider = p

\* C6: a request calls each registered provider at most once and at most
\* three providers in all; the failed primary provider is not among the
\* fallback providers; the next provider is called only after the retry
\* loop of the previous one has ended, within its budget.
C6AtMostOncePerProvider ==
  LET log == rq.genLog
  IN /\ Len(log) <= Len(AllProviders)
     /\ \A i \in 1..Len(log) : log[i].provider \in providers
     /\ \A i, j \in 1..Len(log) : i # j => log[i].provider # log[j].provider
     /\ \A i \in 1..Len(log) : (log[i].role = "primary") = (i = 1)
     /\ \A i \in 1..Len(rq.fallbackProviders) : rq.fallbackProviders[i] # rq.primary
     /\ \A i \in 1..(Len(log) - 1) : log[i].settled = "failed"
     /\ rq.opCalls <= DefaultMaxRetries

\* three providers were called and the last one used up its retry budget
C6Witness ==
  /\ rq.pc = "done"
  /\ Len(rq.genLog) = 3
  /\ rq.genLog[3].settled = "failed"
  /\ rq.opCalls = DefaultMaxRetries

(***************************************************************************)
(* Properties of the adapters' retry loop                                  *)
(***************************************************************************)

\* C7: a remote failure that is not retryable (a status other than 429 and
\* below 500, or no response at all) ends the retry loop: no further call,
\* no wait after it, and the adapter call fails with that same error.
C7NonRetryableNotRetried ==
  \A i \in 1..Len(rq.opLog) :
    LET o == rq.opLog[i]
    IN (o.kind = "error" /\ o.status # 429 /\ o.status < 500) =>
         /\ i = Len(rq.opLog)
         /\ rq.opCalls = i
         /\ Len(rq.waits) = i - 1
         /\ rq.pc \in {"record", "done"}
         /\ rq.genLog[Len(rq.genLog)].settled = "failed"
         /\ rq.genLog[Len(rq.genLog)].error = <<HttpError(rq.gen, o.status, o.retryAfter)>>

\* the first remote call failed with status 400: one call, no wait
C7Witness ==
  /\ rq.pc = "done"
  /\ rq.opLog = <<Failure(400, HeaderAbsent)>>
  /\ rq.opCalls = 1
  /\ rq.waits = <<>>
  /\ rq.thrown # <<>>

\* C8: the retry loop makes at most maxRetries (3) remote calls, calls again
\* only after a retryable failure, waits exactly once between two
\* consecutive calls and not after the last, and after the last failed call
\* the adapter call fails with the error of that call.
C8RetryBudget ==
  LET n == Len(rq.opLog)
      retryable(o) == o.kind = "error" /\ (o.status = 429 \/ o.status >= 500)
  IN /\ rq.opCalls <= DefaultMaxRetries
     /\ rq.opCalls = IF rq.pc = "genOp" THEN n + 1 ELSE n
     /\ \A i \in 1..(rq.opCalls - 1) : retryable(rq.opLog[i])
     /\ Len(rq.waits) = IF rq.pc = "genWait" THEN rq.opCalls
                        ELSE IF rq.opCalls = 0 THEN 0 ELSE rq.opCalls - 1
     /\ rq.pc = "genWait" => rq.opCalls < DefaultMaxRetries /\ retryable(rq.opLog[n])
     /\ (n = DefaultMaxRetries /\ rq.opLog[n].kind = "error") =>
          /\ rq.pc \in {"record", "done"}
          /\ rq.genLog[Len(rq.genLog)].settled = "failed"
          /\ rq.genLog[Len(rq.genLog)].error =
               <<HttpError(rq.gen, rq.opLog[n].status, rq.opLog[n].retryAfter)>>

\* three remote calls failed with different retryable errors, two waits
C8Witness ==
  /\ rq.pc = "done"
  /\ Len(rq.opLog) = DefaultMaxRetries
  /\ rq.opLog[1].status = 500
  /\ rq.opLog[2].status = 429
  /\ rq.opLog[3].status = 503
  /\ Len(rq.waits) = 2
  /\ rq.genLog[1].error[1].status = 503

(***************************************************************************)
(* Properties of the registry                                              *)
(***************************************************************************)

\* C9: getAvailableProviders lists, once each, exactly the registered
\* providers that are enabled and healthy, and a call of enableProvider or
\* disableProvider changes nothing but the enabled flag of the provider it
\* names.
C9AvailableProviders ==
  /\ [](/\ {getAvailableProviders[i] : i \in 1..Len(getAvailableProviders)}
            = {p \in providers : config[p].enabled /\ healthStatus[p]}
        /\ \A i, j \in 1..Len(getAvailableProviders) :
             i # j => getAvailableProviders[i] # getAvailableProviders[j])
  /\ [][config' # config =>
          /\ \E p \in DOMAIN config :
               /\ config'[p] = [config[p] EXCEPT !.enabled = ~config[p].enabled]
               /\ \A q \in DOMAIN config \ {p} : config'[q] = config[q]
          /\ DOMAIN config' = DOMAIN config
          /\ UNCHANGED <<providers, healthStatus, lastHealthCheck, sweeps, timerStarted>>]_vars

\* of three registered providers one is listed, one is healthy but disabled
\* and one is enabled but unhealthy
C9Witness ==
  /\ providers = ProviderNames
  /\ getAvailableProviders = <<"imagen4">>
  /\ healthStatus["dalleE3"] /\ ~config["dalleE3"].enabled
  /\ ~healthStatus["stableDiffusion"] /\ config["stableDiffusion"].enabled

\* C10 as stated: when the metric write succeeds, every adapter call of the
\* request has a metric event with its provider and its outcome.
C10EveryAttemptRecorded ==
  (rq.pc = "done" /\ rq.metrics # <<>>) =>
    \A i \in 1..Len(rq.genLog) :
      \E k \in 1..Len(rq.metrics) :
        /\ rq.metrics[k].provider = rq.genLog[i].provider
        /\ rq.metrics[k].success = (rq.genLog[i].settled = "ok")

(***************************************************************************)
(* Properties of the cache                                                 *)
(***************************************************************************)

\* C11: CacheService.get and set never throw, for any outcome of the
\* backend; the write of the metric event leaves the outcome of
\* generateImage as it was decided before the write; after a cache miss or
\* a failed cache read enhancePrompt makes the model call, and its outcome
\* is that of the model call whether or not the result could be stored.
C11CacheNeverAborts ==
  /\ [](/\ \A o \in GetOutcomes : ~cacheGet(o).threw /\ (o # "hit" => cacheGet(o).value = <<>>)
        /\ \A ok \in BOOLEAN : ~cacheSet(ok).threw /\ cacheSet(ok).value = ok
        /\ rq.pc = "done" => (rq.result = <<>>) # (rq.thrown = <<>>)
        /\ (rq.pc = "done" /\ rq.thrown # <<>>) => rq.thrown[1].source # CacheBackend
        /\ (enh.pc # "cacheGet" /\ enh.got \in {"miss", "unparsable", "error"}) =>
             /\ enh.modelCalls = 1
             /\ enh.pc = "done" =>
                  /\ enh.answer = "text" => enh.result = <<"enhanced">> /\ enh.thrown = <<>>
                  /\ enh.answer # "text" =>
                       /\ enh.result = <<>>
                       /\ enh.thrown # <<>>
                       /\ enh.thrown[1].cause[1] # CacheBackend)
  /\ [][(rq.pc = "record" /\ rq' # rq) =>
          /\ rq'.pc = "done"
          /\ rq'.result = rq.result
          /\ rq'.thrown = rq.thrown
          /\ rq'.genLog = rq.genLog]_vars

\* the metric write failed after a request was served, and a prompt was
\* enhanced although the cache read and the cache write both failed
C11Witness ==
  /\ rq.pc = "done"
  /\ rq.result # <<>>
  /\ rq.metrics = <<>>
  /\ enh.pc = "done"
  /\ enh.got = "error"
  /\ enh.stored = "failed"
  /\ enh.result = <<"enhanced">>

(***************************************************************************)
(* Properties of the health state                                          *)
(***************************************************************************)

\* C12 as stated: when a remote call of an adapter fails with status 401 the
\* call is not repeated and the adapter is unhealthy from then on.
C12UnauthorizedMarksUnhealthy ==
  [][(/\ rq.pc = "genOp"
      /\ Len(rq'.opLog) = Len(rq.opLog) + 1
      /\ rq'.opLog[Len(rq'.opLog)].kind = "error"
      /\ rq'.opLog[Len(rq'.opLog)].status = 401) =>
       /\ rq'.pc \notin {"genOp", "genWait"}
       /\ ~healthStatus'[rq.gen]
       /\ ~isProviderAvailable(rq.gen)']_vars

\* C13 as stated: the last check of a registered provider is never older
\* than one health-check interval, unless a check of that provider that
\* began within the interval is in progress.
C13BoundedStaleness ==
  \A p \in DOMAIN lastHealthCheck :
    \/ now - lastHealthCheck[p] <= config[p].healthCheckInterval
    \/ \E s \in 1..Len(sweeps) :
         /\ providerKeys[sweeps[s].idx] = p
         /\ sweeps[s].now - lastHealthCheck[p] <= config[p].healthCheckInterval

\* C14 as stated: once the timer runs, the last check of a registered
\* provider is never older than one timer period (one minute), unless a
\* sweep that began within the last period is in progress.
C14CheckedEveryMinute ==
  timerStarted =>
    \A p \in DOMAIN lastHealthCheck :
      \/ now - lastHealthCheck[p] <= 1
      \/ \E s \in 1..Len(sweeps) : now - sweeps[s].now <= 1

(***************************************************************************)
(* Properties of the adapters' helper functions                            *)
(***************************************************************************)

\* C15 as stated: a prompt no longer than maxLength is returned unchanged; a
\* longer prompt is cut to a prefix of at most maxLength characters that
\* ends where a word ends (the next character is a blank, or nothing is
\* kept), and no later word end lies at or before the limit.
C15TruncateAtWordBoundary ==
  fn.op = "truncatePrompt" =>
    LET prompt == fn.arg[1]
        maxLength == fn.arg[2]
        result == fn.out
        wordEnd(k) == k = 0 \/ (prompt[k] # " " /\ prompt[k + 1] = " ")
    IN IF Len(prompt) <= maxLength
       THEN result = prompt
       ELSE /\ Len(result) <= maxLength
            /\ result = SubSeq(prompt, 1, Len(result))
            /\ wordEnd(Len(result))
            /\ \A k \in (Len(result) + 1)..maxLength : ~wordEnd(k)

\* C16 as stated: each side of the size an adapter computes for its remote
\* call is a multiple of 64, lies within the adapter's declared minimum and
\* maximum, and is the multiple nearest to the requested value (to the
\* nearest declared limit when the requested value lies outside them).
C16SizeNormalization ==
  \A i \in 1..Len(rq.issued) :
    \A side \in 1..2 :
      LET requested == IF side = 1 THEN rq.params.width ELSE rq.params.height
          lo == minImageSize(rq.gen)
          hi == getCapabilities(rq.gen).maxImageWidth
          target == Max(lo, Min(hi, requested))
          d == rq.issued[i][side]
      IN requested # 0 =>
           /\ d % 64 = 0
           /\ lo <= d /\ d <= hi
           /\ Abs(d - target) <= 32

\* C17 as stated: a request for the DALL-E adapter, whatever width and
\* height it asks for, leads to a remote call of that adapter, and every
\* remote call carries the supported size closest to the requested one.
C17DalleNearestSize ==
  (/\ rq.pc = "done"
   /\ rq.params.provider = "dalleE3"
   /\ rq.params.count <= 1
   /\ rq.atStart.registered /\ rq.atStart.enabled /\ rq.atStart.healthy) =>
     LET w == IF rq.params.width # 0 THEN rq.params.width ELSE 1024
         h == IF rq.params.height # 0 THEN rq.params.height ELSE 1024
         distance(size) == Abs(w - size[1]) + Abs(h - size[2])
     IN /\ rq.genLog # <<>>
        /\ rq.genLog[1].provider = "dalleE3"
        /\ rq.issued # <<>>
        /\ \A i \in 1..Len(rq.issued) :
             /\ rq.issued[i] \in DalleValidSizes
             /\ \A size \in DalleValidSizes : distance(rq.issued[i]) <= distance(size)

\* C18 as stated: the cost a successful generate reports equals the total
\* cost estimateCost predicts for the same request and adapter.
C18EstimateEqualsActual ==
  (rq.pc = "done" /\ rq.result # <<>>) =>
     rq.result[1].cost = estimateCost(rq.result[1].provider, rq.params).totalCost

\* C19 as stated: the wait before retry number k+1 is at least the
\* retry-after hint of the failed call when its response carries one, and
\* otherwise, a 429 without a retry-after header included, is
\* baseDelay * 2^(k-1).
C19BackoffDelay ==
  \A k \in 1..Len(rq.waits) :
    LET failed == rq.opLog[k]
        hinted == failed.status = 429 /\ failed.retryAfter > 0
    IN /\ hinted => rq.waits[k] >= failed.retryAfter * 1000
       /\ (failed.status # 429 \/ failed.retryAfter = HeaderAbsent) =>
            rq.waits[k] = BaseDelayMs * Pow2(k - 1)

\* C20: mapError classifies every failure by its HTTP status alone: 429 is
\* RATE_LIMIT_EXCEEDED, a status from 500 on is SERVER_ERROR, 400 is
\* INVALID_REQUEST, 401 is UNAUTHORIZED, and every other failure, one without
\* an HTTP response included, is UNKNOWN_ERROR; the error is retryable
\* exactly when the status is 429 or at least 500.
C20ErrorClassification ==
  fn.op = "mapError" =>
    LET status == fn.arg.status
        expected == CASE status = 429 -> "RATE_LIMIT_EXCEEDED"
                      [] status \in 500..599 -> "SERVER_ERROR"
                      [] status = 400 -> "INVALID_REQUEST"
                      [] status = 401 -> "UNAUTHORIZED"
                      [] OTHER -> "UNKNOWN_ERROR"
    IN /\ fn.out.code = expected
       /\ fn.out.retryable <=> (status = 429 \/ status \in 500..599)

C20Witness ==
  /\ fn.op = "mapError"
  /\ fn.arg.status = 403
  /\ fn.out.code = "UNKNOWN_ERROR"
  /\ ~fn.out.retryable

(***************************************************************************)
(* Properties of the scorer                                                *)
(***************************************************************************)

\* C21 as stated: of two candidates that differ only in the health flag, the
\* unhealthy one scores exactly half of what the healthy one scores: when a
\* health check turns a provider from healthy to unhealthy and nothing else
\* about it changes, its score for every request is halved.
C21HealthPenalty ==
  [][\A p \in providers, r \in SampleParams :
       (/\ healthStatusGet(p) /\ ~healthStatusGet(p)'
        /\ config'[p] = config[p]) =>
          2 * calculateProviderScore(getCapabilities(p), estimateCost(p, r), config[p])'
            = calculateProviderScore(getCapabilities(p), estimateCost(p, r), config[p])]_vars

\* C22: with capabilities, weights, priority and health held fixed, a lower
\* estimated cost per image never gives a lower score, and the score lies
\* between 0 and 1.
C22ScoreMonotonicInCost ==
  fn.op = "calculateProviderScore" =>
    LET p == fn.arg.provider
        scoreAt(c) == calculateProviderScore(getCapabilities(p),
                        [totalCost |-> c, costPerImage |-> c], config[p])
    IN /\ fn.out >= 0 /\ fn.out <= ScoreOne
       /\ fn.out = scoreAt(fn.arg.costPerImage)
       /\ \A lower \in SampleCosts :
            lower <= fn.arg.costPerImage => scoreAt(lower) >= fn.out

C22Witness ==
  /\ fn.op = "calculateProviderScore"
  /\ fn.arg.costPerImage = DalleStandardCost
  /\ fn.out > 0
  /\ calculateProviderScore(getCapabilities(fn.arg.provider),
       [totalCost |-> 0, costPerImage |-> 0], config[fn.arg.provider]) > fn.out

(***************************************************************************)
(* Properties of the health monitor                                        *)
(***************************************************************************)

\* C23: a sweep checks a provider if and only if at least the provider's
\* healthCheckInterval has passed since its last recorded check when the
\* sweep reaches it, and the health value and the time of the last check of
\* a provider change only together, in the step that completes a check of
\* that provider, which records the time that check began.
C23RecheckWhenIntervalElapsed ==
  [][LET keys == providerKeys
         dueAt(q, t, lhc) == t - lastCheckOf(lhc, q) >= config[q].healthCheckInterval
         \* the sweep passed over the providers after index i and stopped at j
         reached(i, j, t, lhc) ==
           /\ \A k \in (i + 1)..(IF j = 0 THEN Len(keys) ELSE j - 1) :
                ~dueAt(keys[k], t, lhc)
           /\ j # 0 => dueAt(keys[j], t, lhc)
         completes(s) ==
           /\ lastHealthCheck'[keys[sweeps[s].idx]] = sweeps[s].now
           /\ \/ /\ Len(sweeps') = Len(sweeps)
                 /\ \A u \in 1..Len(sweeps) : u # s => sweeps'[u] = sweeps[u]
                 /\ sweeps'[s].now = now
                 /\ reached(sweeps[s].idx, sweeps'[s].idx, now, lastHealthCheck')
              \/ /\ sweeps' = RemoveAt(sweeps, s)
                 /\ reached(sweeps[s].idx, 0, now, lastHealthCheck')
     IN /\ \A q \in providers :
             (\/ healthStatus'[q] # healthStatus[q]
              \/ lastCheckOf(lastHealthCheck', q) # lastCheckOf(lastHealthCheck, q)) =>
                \E s \in 1..Len(sweeps) : keys[sweeps[s].idx] = q /\ completes(s)
        /\ (sweeps' # sweeps /\ Len(sweeps') <= Len(sweeps)) =>
             \E s \in 1..Len(sweeps) : completes(s)
        /\ Len(sweeps') > Len(sweeps) =>
             /\ sweeps' = Append(sweeps, sweeps'[Len(sweeps')])
             /\ sweeps'[Len(sweeps')].now = now'
             /\ reached(0, sweeps'[Len(sweeps')].idx, now', lastHealthCheck)
        /\ (now' # now /\ timerStarted /\ sweeps' = sweeps /\ Len(sweeps) < MaxSweeps) =>
             reached(0, 0, now', lastHealthCheck)]_vars

C23Witness ==
  /\ timerStarted
  /\ sweeps = <<>>
  /\ \E q, r \in DOMAIN lastHealthCheck :
       /\ lastHealthCheck[q] >= StartTime + config[q].healthCheckInterval
       /\ lastHealthCheck[r] < lastHealthCheck[q]
       /\ now - lastHealthCheck[r] < config[r].healthCheckInterval

\* C24: a health check that throws sets the provider's health to false and
\* records the time of the check; the sweep goes on to the next provider that
\* is due or, when there is none, ends (registering the timer when it is the
\* initial sweep); the other sweeps, the registry and the timer are left as
\* they are, so that later sweeps run.
C24ThrowingCheckIsUnhealthy ==
  [][\A s \in 1..MaxSweeps :
       HealthCheckReturns(s, "throws") =>
         LET sw == sweeps[s]
             q == providerKeys[sw.idx]
             rest == {k \in (sw.idx + 1)..Len(providerKeys) :
                        now - lastCheckOf(lastHealthCheck', providerKeys[k])
                          >= config[providerKeys[k]].healthCheckInterval}
         IN /\ healthStatus'[q] = FALSE
            /\ lastHealthCheck'[q] = sw.now
            /\ \A r \in providers \ {q} :
                 /\ healthStatus'[r] = healthStatus[r]
                 /\ lastCheckOf(lastHealthCheck', r) = lastCheckOf(lastHealthCheck, r)
            /\ providers' = providers /\ config' = config
            /\ timerStarted => timerStarted'
            /\ IF rest # {}
               THEN /\ Len(sweeps') = Len(sweeps)
                    /\ sweeps'[s].idx \in rest
                    /\ \A k \in rest : sweeps'[s].idx <= k
                    /\ \A u \in 1..Len(sweeps) : u # s => sweeps'[u] = sweeps[u]
               ELSE /\ sweeps' = RemoveAt(sweeps, s)
                    /\ sw.initial => timerStarted']_vars

C24Witness ==
  \E s \in 1..Len(sweeps) :
    /\ sweeps[s].threw
    /\ sweeps[s].idx > 1
    /\ \E k \in 1..(sweeps[s].idx - 1) :
         /\ ~healthStatus[providerKeys[k]]
         /\ providerKeys[k] \in DOMAIN lastHealthCheck

(***************************************************************************)
(* Properties of the adapters' generateImage                               *)
(***************************************************************************)

\* C25: when validateParams of an adapter reports at least one violation of
\* the request, generateImage of that adapter fails with an 'Invalid
\* parameters' error that lists every violation reported, and no remote call
\* is made.
C25InvalidRequestRejected ==
  (rq.role = "direct" /\ rq.pc \notin {"genValidate"}) =>
    LET certain == validateParams(rq.gen, rq.params, TRUE).errors
        possible == {validateParams(rq.gen, rq.params, ok).errors : ok \in AuthOutcomes(rq.gen)}
        rejected == /\ rq.pc = "done" /\ rq.thrown # <<>>
                    /\ rq.thrown[1].message = "Invalid parameters"
    IN /\ certain # {} => rejected
       /\ rejected =>
            /\ rq.thrown[1].cause # <<{}>>
            /\ rq.thrown[1].cause[1] \in possible
            /\ rq.opCalls = 0 /\ rq.opLog = <<>> /\ rq.issued = <<>> /\ rq.waits = <<>>
            /\ rq.result = <<>>
       /\ rq.opCalls > 0 => certain = {}

C25Witness ==
  /\ rq.role = "direct" /\ rq.pc = "done"
  /\ rq.gen = "dalleE3"
  /\ rq.thrown # <<>>
  /\ rq.thrown[1].message = "Invalid parameters"
  /\ Cardinality(rq.thrown[1].cause[1]) >= 4
  /\ rq.opCalls = 0

(***************************************************************************)
(* Properties of requests that run while the registry changes              *)
(***************************************************************************)

\* C26 as stated: whenever the orchestrator calls generateImage of an
\* adapter, and whenever that call issues a remote call, the adapter is
\* enabled and healthy at that moment.
C26CallsTargetAvailableProvider ==
  [][(/\ rq'.role \in {"primary", "fallback"}
      /\ \/ Len(rq'.genLog) > Len(rq.genLog)
         \/ Len(rq'.issued) > Len(rq.issued)) =>
        isProviderAvailable(rq'.gen)]_vars

\* C27 as stated: no two sweeps are suspended in a health check of the same
\* provider, and the recorded time of a provider's last check never moves
\* back (the result of a check that began earlier never replaces the result
\* of one that began later).
C27OneCheckInFlight ==
  /\ [](\A s, u \in 1..Len(sweeps) :
          s # u => providerKeys[sweeps[s].idx] # providerKeys[sweeps[u].idx])
  /\ [][\A q \in providers :
          lastCheckOf(lastHealthCheck', q) >= lastCheckOf(lastHealthCheck, q)]_vars

\* C28 as stated: while the health checks of one provider never settle,
\* every other registered provider is checked again and again.
C28NoStarvation ==
  \A p \in ProviderNames \ {Hung} :
    []<>(p \in providers => \E s \in 1..Len(sweeps) : providerKeys[sweeps[s].idx] = p)

\* C29: every provider is unhealthy until one of its health checks has
\* returned healthy; the orchestrator calls generateImage only of providers
\* one of whose health checks has returned healthy; and a request that
\* arrives before any provider has passed a check is rejected at once with
\* 'No suitable providers available', without an adapter call.
C29NoCallBeforeFirstHealthyCheck ==
  /\ \A p \in providers : healthStatus[p] => p \in everHealthy
  /\ \A i \in 1..Len(rq.genLog) : rq.genLog[i].provider \in everHealthy
  /\ rq.issued # <<>> => rq.gen \in everHealthy
  /\ rq.pc \notin {"idle", "record", "done"} => everHealthy # {}
  /\ (rq.pc \in {"record", "done"} /\ everHealthy = {}) =>
       /\ rq.thrown = <<NoSuitableProviders>>
       /\ rq.result = <<>>
       /\ rq.genLog = <<>>

C29Witness ==
  /\ rq.pc = "done"
  /\ everHealthy = {}
  /\ sweeps # <<>> /\ sweeps[1].initial
  /\ rq.thrown = <<NoSuitableProviders>>
  /\ rq.genLog = <<>>

\* C30 as stated: the metric event of a request that succeeded names the
\* provider that produced the result, and the metric event of a request that
\* failed names a provider whose generateImage the request called.
C30MetricNamesDecidingProvider ==
  (rq.pc = "done" /\ rq.role # "direct" /\ rq.metrics # <<>>) =>
    LET event == rq.metrics[Len(rq.metrics)]
    IN /\ rq.result # <<>> => (event.success /\ event.provider = rq.result[1].provider)
       /\ rq.result = <<>> =>
            /\ ~event.success
            /\ \E i \in 1..Len(rq.genLog) : rq.genLog[i].provider = event.provider

====
